---- MODULE Spec2Model ----
(***************************************************************************)
(* Model of generic/mem_allocation/ffrbll_replay.py: a replay log of      *)
(* "+ offset size" / "- offset size" lines is parsed, the address bounds  *)
(* and the grid layout are computed once, and then every event is applied *)
(* to a counter array and rendered as one frame; the frames are collected *)
(* and handed to the GIF encoder.                                         *)
(*                                                                         *)
(* Text is modelled as sequences of one-character strings, a log as the   *)
(* sequence of its lines (the text split at "\n").  numpy arrays are     *)
(* functions over 0-based index ranges, as in the source.                 *)
(***************************************************************************)
EXTENDS Integers, Sequences, FiniteSets, TLC

VARIABLES
    contents,          \* replay_file_contents: the lines of the log
    pc,                \* position of replay_to_gif / replay_iterate
    events,            \* parse_events(...) result
    bounds,            \* calc_bounds(events): <<min_offset, max_offset>>, <<>> before
    allocations_size,  \* bounds[1] - bounds[0]
    width,
    height,
    padding_pixels,
    cell_size,
    allocated_dma,     \* the counter array, linear view of allocated_2d
    idx,               \* loop index of enumerate(events)
    frame,             \* the frame built by the current iteration, <<>> if none
    images,            \* frames received by list(replay_iterate(...))
    stdout,            \* what was written to sys.stdout
    saved,             \* calls made to the encoder (Image.save)
    error,             \* the exception that ended the run, "" if none
    calls,             \* history: the steps executed so far
    snapshots          \* history: the counter array each frame was rendered from

vars == <<contents, pc, events, bounds, allocations_size, width, height,
          padding_pixels, cell_size, allocated_dma, idx, frame, images,
          stdout, saved, error, calls, snapshots>>

----------------------------------------------------------------------------
(* Bounds of the model *)

MaxLines == 2

MaxOffset == 1

MaxSize == 1

\* the largest address range of the layout runs
MaxLayoutSize == 1100

\* the widest grid of the cell size runs
MaxWidth == 2100

\* the longest line of the parsing runs
MaxLineLen == 6

----------------------------------------------------------------------------
(* Text helpers *)

Digits == <<"0", "1", "2", "3", "4", "5", "6", "7", "8", "9">>

HexDigits == <<"0", "1", "2", "3", "4", "5", "6", "7", "8", "9",
               "a", "b", "c", "d", "e", "f">>

IsDigit(c) == \E d \in 1..10 : Digits[d] = c

DigitVal(c) == (CHOOSE d \in 1..10 : Digits[d] = c) - 1

Max(a, b) == IF a >= b THEN a ELSE b

Min(a, b) == IF a <= b THEN a ELSE b

RECURSIVE DecimalText(_)
\* str(n) for n >= 0
DecimalText(n) ==
    IF n < 10 THEN <<Digits[n + 1]>>
    ELSE DecimalText(n \div 10) \o <<Digits[(n % 10) + 1]>>

\* str(n)
IntText(n) == IF n < 0 THEN <<"-">> \o DecimalText(0 - n) ELSE DecimalText(n)

\* one log line "<mode> <offset> <size>"
EventLine(mode, offset, size) ==
    <<mode, " ">> \o IntText(offset) \o <<" ">> \o IntText(size)

----------------------------------------------------------------------------
(* parse_events: re.findall(r"^([+-]) (-?\d+) (-?\d+)$", ..., MULTILINE) *)

\* the pattern of a number without its optional sign: \d+
IsIntText_unsigned(s) ==
    /\ Len(s) >= 1
    /\ \A i \in 1..Len(s) : IsDigit(s[i])

\* -?\d+
IsIntText(s) ==
    LET body == IF Len(s) >= 1 /\ s[1] = "-" THEN Tail(s) ELSE s
    IN  /\ Len(body) >= 1
        /\ \A i \in 1..Len(body) : IsDigit(body[i])

RECURSIVE DecimalVal(_)
DecimalVal(s) ==
    IF Len(s) = 0 THEN 0
    ELSE 10 * DecimalVal(SubSeq(s, 1, Len(s) - 1)) + DigitVal(s[Len(s)])

\* int(s)
IntVal(s) == IF s[1] = "-" THEN 0 - DecimalVal(Tail(s)) ELSE DecimalVal(s)

\* positions of the blanks of a line
Blanks(line) == {i \in 1..Len(line) : line[i] = " "}

\* the line matches the pattern from "^" to "$"
LineMatches(line) ==
    /\ Len(line) >= 5
    /\ line[1] \in {"+", "-"}
    /\ line[2] = " "
    /\ Cardinality(Blanks(line)) = 2
    /\ LET sp == CHOOSE i \in Blanks(line) : i > 2
       IN  /\ IsIntText(SubSeq(line, 3, sp - 1))
           /\ IsIntText(SubSeq(line, sp + 1, Len(line)))

\* (mode, int(offset), int(size)) of a matching line
LineEvent(line) ==
    LET sp == CHOOSE i \in Blanks(line) : i > 2
    IN  <<line[1], IntVal(SubSeq(line, 3, sp - 1)),
          IntVal(SubSeq(line, sp + 1, Len(line)))>>

RECURSIVE parse_events(_)
parse_events(lines) ==
    IF Len(lines) = 0 THEN <<>>
    ELSE LET rest == parse_events(Tail(lines))
         IN  IF LineMatches(Head(lines))
             THEN <<LineEvent(Head(lines))>> \o rest
             ELSE rest

----------------------------------------------------------------------------
(* calc_bounds: the loop over the events, starting from the two infinities *)

\* float("inf") / float("-inf"): a bound that no event has replaced yet
Infinity == [finite |-> FALSE, val |-> 0]

Number(n) == [finite |-> TRUE, val |-> n]

\* offset < min_offset
LessThanMin(offset, min_offset) ==
    IF min_offset.finite THEN offset < min_offset.val ELSE TRUE

\* offset + size > max_offset
GreaterThanMax(end, max_offset) ==
    IF max_offset.finite THEN end > max_offset.val ELSE TRUE

RECURSIVE calc_bounds_loop(_, _, _)
calc_bounds_loop(evs, min_offset, max_offset) ==
    IF Len(evs) = 0 THEN <<min_offset, max_offset>>
    ELSE LET offset == Head(evs)[2]
             size   == Head(evs)[3]
         IN  calc_bounds_loop(
                 Tail(evs),
                 IF LessThanMin(offset, min_offset)
                     THEN Number(offset) ELSE min_offset,
                 IF GreaterThanMax(offset + size, max_offset)
                     THEN Number(offset + size) ELSE max_offset)

\* calc_bounds taking the largest offset, without the size, as max_offset
calc_bounds_without_size(evs) ==
    calc_bounds_loop([j \in 1..Len(evs) |-> <<evs[j][1], evs[j][2], 0>>],
                     Infinity, Infinity)

calc_bounds(evs) == calc_bounds_loop(evs, Infinity, Infinity)

----------------------------------------------------------------------------
(* Layout of the grid, lines 63-75 *)

min_width == 32

max_cell_size == 10

max_image_width == 2048

\* int(ceil(n ** 0.5)) for n >= 0
CeilSqrt(n) == CHOOSE w \in 0..n : w * w >= n /\ (w = 0 \/ (w - 1) * (w - 1) < n)

\* CeilDiv with the integer division that drops the remainder
CeilDiv_floor(n, d) == n \div d

\* int(ceil(n / d)) for n >= 0, d > 0
CeilDiv(n, d) == (n + d - 1) \div d

grid_width(size) == Max(min_width, CeilSqrt(size))

grid_height(size) == CeilDiv(size, grid_width(size))

grid_padding(size) == (grid_width(size) * grid_height(size)) - size

\* grid_cell_size without the lower limit of 1
grid_cell_size_no_floor(w) == Min(max_cell_size, max_image_width \div w)

grid_cell_size(w) == Max(1, Min(max_cell_size, max_image_width \div w))

\* numpy.zeros((height, width), dtype=int).ravel()
zeros(n) == [k \in 0..(n - 1) |-> 0]

----------------------------------------------------------------------------
(* Applying one event, line 87 *)

\* a slice bound i of a sequence of length n, as Python resolves it
SliceIndex(i, n) == IF i < 0 THEN Max(i + n, 0) ELSE Min(i, n)

\* InSlice with the stop index taken as part of the slice
InSlice_inclusive(k, start, stop, n) ==
    SliceIndex(start, n) <= k /\ k <= SliceIndex(stop, n)

\* index k is selected by [start:stop] in a sequence of length n
InSlice(k, start, stop, n) ==
    SliceIndex(start, n) <= k /\ k < SliceIndex(stop, n)

\* delta adding 1 for both modes
delta_always_one(mode) == 1

delta(mode) == IF mode = "+" THEN 1 ELSE 0 - 1

\* apply_event with the counters kept from going below zero
apply_event_clamped(dma, n, ev, min_offset) ==
    [k \in 0..(n - 1) |->
        IF InSlice(k, ev[2] - min_offset, ev[2] + ev[3] - min_offset, n)
        THEN Max(0, dma[k] + delta(ev[1]))
        ELSE dma[k]]

\* allocated_dma[offset - bounds[0]: offset + size - bounds[0]] += delta
apply_event(dma, n, ev, min_offset) ==
    [k \in 0..(n - 1) |->
        IF InSlice(k, ev[2] - min_offset, ev[2] + ev[3] - min_offset, n)
        THEN dma[k] + delta(ev[1])
        ELSE dma[k]]

----------------------------------------------------------------------------
(* Rendering one frame, lines 89-158 *)

background == 190

used_colour == <<25, 25, 127>>

free_colour == <<24, 190, 24>>

invalid_colour == <<255, 0, 0>>

margin == 10

text_height == 10

text_margin == 2

\* is_free taken as "the counter is 0"
is_free_when_zero(dma, k) == dma[k] = 0

\* is_free = allocated_2d == 1, at cell k
is_free(dma, k) == dma[k] = 1

\* invalid without the test for counters above 1
invalid_only_below(dma, k) == dma[k] < 0

\* invalid without the test for negative counters
invalid_only_above(dma, k) == dma[k] > 1

\* invalid = (allocated_2d < 0) | (allocated_2d > 1), at cell k
invalid(dma, k) == dma[k] < 0 \/ dma[k] > 1

\* cell k of n is covered by image.ravel()[-3*(padding_pixels):] = background,
\* which line 93 skips when padding_pixels is 0
is_padding(k, n, padding) ==
    /\ padding # 0
    /\ 3 * k >= SliceIndex(0 - (3 * padding), 3 * n)

\* the colour of every cell: used, then the padding, then free, then invalid
cell_colours(dma, n, padding) ==
    [k \in 0..(n - 1) |->
        IF invalid(dma, k) THEN invalid_colour
        ELSE IF is_free(dma, k) THEN free_colour
        ELSE IF is_padding(k, n, padding)
             THEN <<background, background, background>>
        ELSE used_colour]

RECURSIVE HexText(_)
\* format(n, "x") for n >= 0
HexText(n) ==
    IF n < 16 THEN <<HexDigits[n + 1]>>
    ELSE HexText(n \div 16) \o <<HexDigits[(n % 16) + 1]>>

RECURSIVE ZeroPad(_, _)
ZeroPad(s, w) == IF Len(s) >= w THEN s ELSE ZeroPad(<<"0">> \o s, w)

\* Hex08 padding to a width of 8 after the sign
Hex08_sign_apart(n) ==
    IF n < 0 THEN <<"-">> \o ZeroPad(HexText(0 - n), 8)
    ELSE ZeroPad(HexText(n), 8)

\* "{0:08x}".format(n): the sign counts in the width of 8
Hex08(n) ==
    IF n < 0 THEN <<"-">> \o ZeroPad(HexText(0 - n), 7)
    ELSE ZeroPad(HexText(n), 8)

\* the word of operation_text
operation_word(mode) == IF mode = "+" THEN "free " ELSE "alloc"

\* the frame of event i; the Free figure is kept as the two operands of the
\* division of line 103, its divisor being 0 when allocations_size is 0
render_frame(dma, i, ev, size, w, h, padding, cs) ==
    [ event_id  |-> i,
      free      |-> <<Cardinality({k \in 0..((w * h) - 1) : is_free(dma, k)}), size>>,
      operation |-> <<operation_word(ev[1]), Hex08(ev[2]), IntText(ev[3])>>,
      cells     |-> cell_colours(dma, w * h, padding),
      cell_size |-> cs,
      canvas    |-> <<(w * cs) + (margin * 2),
                      (h * cs) + (margin * 3) + (text_height * 3)
                          + (text_margin * 2)>> ]

\* the pixel (x, y) of the magnified grid of a frame of width w: numpy.kron
\* repeats every cell cell_size times in both directions
grid_pixel(f, w, x, y) == f.cells[((y \div f.cell_size) * w) + (x \div f.cell_size)]

----------------------------------------------------------------------------
(* The logs the runs start from *)

Modes == {"+", "-"}

Offsets == 0..MaxOffset

Sizes == (0 - 1)..MaxSize

WellFormedLines == {EventLine(m, o, s) : m \in Modes, o \in Offsets, s \in Sizes}

\* lines the pattern rejects: a size that is no number, a missing blank, a
\* third number, a mode that is neither '+' nor '-'
MalformedLines ==
    { <<"+", " ", "0", " ", "x">>,
      <<"-", "1", " ", "1">>,
      <<"+", " ", "0", " ", "1", " ", "2">>,
      <<"*", " ", "0", " ", "1">> }

RECURSIVE LogsOfLength(_)
LogsOfLength(n) ==
    IF n = 0 THEN {<<>>}
    ELSE {<<l>> \o rest : l \in WellFormedLines, rest \in LogsOfLength(n - 1)}

\* logs with lines that are to be skipped
NoisyLogs ==
    {<<m>> : m \in MalformedLines}
        \cup {<<m, n>> : m \in MalformedLines, n \in MalformedLines}
        \cup {<<m, l>> : m \in MalformedLines, l \in WellFormedLines}
        \cup {<<l, m>> : l \in WellFormedLines, m \in MalformedLines}

\* an event, then the same range added and taken away again
RoundTripLogs ==
    {<<first, EventLine("+", o, s), EventLine("-", o, s)>> :
        first \in WellFormedLines, o \in Offsets, s \in Sizes}

\* the same range added twice, then one more event
DoubleLogs ==
    {<<EventLine("+", o, s), EventLine("+", o, s), last>> :
        o \in Offsets, s \in Sizes, last \in WellFormedLines}

\* the logs named by the documented examples
ExampleLogs ==
    { <<EventLine("+", 0, 10)>>,
      <<EventLine("+", 0, 10), EventLine("+", 20, 5)>>,
      <<EventLine("+", 20, 5), EventLine("-", 0, 10)>>,
      <<EventLine("+", 0, 10), EventLine("+", 5, 10), EventLine("-", 12, 8)>>,
      <<EventLine("+", 0 - 3, 5), EventLine("-", 0 - 1, 4)>>,
      <<EventLine("+", 0, 10), EventLine("+", 5, 0 - 7)>>,
      <<EventLine("-", 0, 40), EventLine("+", 8, 30), EventLine("-", 0, 0 - 2)>> }

Logs ==
    UNION {LogsOfLength(n) : n \in 0..MaxLines}
        \cup NoisyLogs \cup RoundTripLogs \cup DoubleLogs \cup ExampleLogs

----------------------------------------------------------------------------
(* The run: replay_to_gif driving the generator replay_iterate *)

Init ==
    /\ contents \in Logs
    /\ pc = "start"
    /\ events = <<>>
    /\ bounds = <<>>
    /\ allocations_size = 0
    /\ width = 0
    /\ height = 0
    /\ padding_pixels = 0
    /\ cell_size = 0
    /\ allocated_dma = <<>>
    /\ idx = 0
    /\ frame = <<>>
    /\ images = <<>>
    /\ stdout = <<>>
    /\ saved = <<>>
    /\ error = ""
    /\ calls = <<>>
    /\ snapshots = <<>>

\* line 57: events = parse_events(replay_file_contents)
ParseEvents ==
    /\ pc = "start"
    /\ events' = parse_events(contents)
    /\ pc' = "parsed"
    /\ calls' = Append(calls, "parse_events")
    /\ UNCHANGED <<contents, bounds, allocations_size, width, height,
                   padding_pixels, cell_size, allocated_dma, idx, frame,
                   images, stdout, saved, error, snapshots>>

\* lines 59-60: if not events: return
ReturnNoEvents ==
    /\ pc = "parsed"
    /\ Len(events) = 0
    /\ pc' = "collected"
    /\ UNCHANGED <<contents, events, bounds, allocations_size, width, height,
                   padding_pixels, cell_size, allocated_dma, idx, frame,
                   images, stdout, saved, error, calls, snapshots>>

\* lines 62-63
CalcBounds ==
    /\ pc = "parsed"
    /\ Len(events) > 0
    /\ bounds' = calc_bounds(events)
    /\ allocations_size' = bounds'[2].val - bounds'[1].val
    /\ pc' = "bounded"
    /\ calls' = Append(calls, "calc_bounds")
    /\ UNCHANGED <<contents, events, width, height, padding_pixels, cell_size,
                   allocated_dma, idx, frame, images, stdout, saved, error,
                   snapshots>>

\* lines 66-83: the layout and the zeroed counter array
Layout ==
    /\ pc = "bounded"
    /\ allocations_size >= 0
    /\ width' = grid_width(allocations_size)
    /\ height' = grid_height(allocations_size)
    /\ padding_pixels' = grid_padding(allocations_size)
    /\ cell_size' = grid_cell_size(width')
    /\ allocated_dma' = zeros(height' * width')
    /\ idx' = 0
    /\ pc' = "apply"
    /\ calls' = Append(calls, "zeros")
    /\ UNCHANGED <<contents, events, bounds, allocations_size, frame, images,
                   stdout, saved, error, snapshots>>

\* line 66 with allocations_size < 0: the square root is a complex number
\* and ceil() raises; the exception leaves replay_iterate and replay_to_gif
LayoutRaises ==
    /\ pc = "bounded"
    /\ allocations_size < 0
    /\ error' = "TypeError"
    /\ pc' = "raised"
    /\ UNCHANGED <<contents, events, bounds, allocations_size, width, height,
                   padding_pixels, cell_size, allocated_dma, idx, frame,
                   images, stdout, saved, calls, snapshots>>

\* line 87
ApplyEvent ==
    /\ pc = "apply"
    /\ allocated_dma' = apply_event(allocated_dma, height * width,
                                    events[idx + 1], bounds[1].val)
    /\ pc' = "render"
    /\ calls' = Append(calls, "apply")
    /\ UNCHANGED <<contents, events, bounds, allocations_size, width, height,
                   padding_pixels, cell_size, idx, frame, images, stdout,
                   saved, error, snapshots>>

\* RenderFrame classifying in place: the counters of the invalid cells are
\* overwritten while the frame is built
RenderFrameInPlace ==
    /\ pc = "render"
    /\ frame' = render_frame(allocated_dma, idx, events[idx + 1],
                             allocations_size, width, height, padding_pixels,
                             cell_size)
    /\ allocated_dma' = [k \in DOMAIN allocated_dma |->
                            IF invalid(allocated_dma, k) THEN 0
                            ELSE allocated_dma[k]]
    /\ snapshots' = Append(snapshots, allocated_dma)
    /\ pc' = "yield"
    /\ calls' = Append(calls, "render")
    /\ UNCHANGED <<contents, events, bounds, allocations_size, width, height,
                   padding_pixels, cell_size, idx, images, stdout, saved,
                   error>>

\* lines 89-158: classification, colours, magnification, texts, canvas
RenderFrame ==
    /\ pc = "render"
    /\ frame' = render_frame(allocated_dma, idx, events[idx + 1],
                             allocations_size, width, height, padding_pixels,
                             cell_size)
    /\ snapshots' = Append(snapshots, allocated_dma)
    /\ pc' = "yield"
    /\ calls' = Append(calls, "render")
    /\ UNCHANGED <<contents, events, bounds, allocations_size, width, height,
                   padding_pixels, cell_size, allocated_dma, idx, images,
                   stdout, saved, error>>

\* lines 89-127 with a grid of height 0: the classification and the texts
\* are computed as above (the division of line 103 included), and then
\* Image.fromarray of an array without rows raises in the versions of the
\* imaging library that refuse empty image data; the others build the canvas
RenderRaises ==
    /\ pc = "render"
    /\ height = 0
    /\ frame' = render_frame(allocated_dma, idx, events[idx + 1],
                             allocations_size, width, height, padding_pixels,
                             cell_size)
    /\ snapshots' = Append(snapshots, allocated_dma)
    /\ error' = "ValueError"
    /\ pc' = "raised"
    /\ calls' = Append(calls, "render")
    /\ UNCHANGED <<contents, events, bounds, allocations_size, width, height,
                   padding_pixels, cell_size, allocated_dma, idx, images,
                   stdout, saved>>

\* line 160: the frame reaches list(...) in replay_to_gif
YieldFrame ==
    /\ pc = "yield"
    /\ images' = Append(images, frame)
    /\ pc' = "progress"
    /\ calls' = Append(calls, "yield")
    /\ UNCHANGED <<contents, events, bounds, allocations_size, width, height,
                   padding_pixels, cell_size, allocated_dma, idx, frame,
                   stdout, saved, error, snapshots>>

\* lines 162-169, and the loop going to its next event or ending
ReportProgress ==
    /\ pc = "progress"
    /\ stdout' = Append(stdout, <<idx + 1, Len(events)>>)
    /\ idx' = idx + 1
    /\ pc' = IF idx + 1 < Len(events) THEN "apply" ELSE "finish"
    /\ calls' = Append(calls, "progress")
    /\ UNCHANGED <<contents, events, bounds, allocations_size, width, height,
                   padding_pixels, cell_size, allocated_dma, frame, images,
                   saved, error, snapshots>>

\* lines 171-172
AllDone ==
    /\ pc = "finish"
    /\ stdout' = Append(stdout, "ALL DONE")
    /\ pc' = "collected"
    /\ UNCHANGED <<contents, events, bounds, allocations_size, width, height,
                   padding_pixels, cell_size, allocated_dma, idx, frame,
                   images, saved, error, calls, snapshots>>

\* lines 183-191: images[0].save(out_gif, append_images=images[1:], ...)
SaveGif ==
    /\ pc = "collected"
    /\ Len(images) > 0
    /\ saved' = Append(saved, [ first         |-> images[1],
                                append_images |-> Tail(images),
                                save_all      |-> TRUE,
                                optimize      |-> FALSE,
                                duration      |-> 1,
                                loop          |-> 0 ])
    /\ pc' = "done"
    /\ UNCHANGED <<contents, events, bounds, allocations_size, width, height,
                   padding_pixels, cell_size, allocated_dma, idx, frame,
                   images, stdout, error, calls, snapshots>>

\* replay_to_gif without the test of line 183: the encoder is called with
\* whatever was collected
SaveUnguarded ==
    /\ pc = "collected"
    /\ Len(images) = 0
    /\ saved' = Append(saved, [ first         |-> <<>>,
                                append_images |-> <<>>,
                                save_all      |-> TRUE,
                                optimize      |-> FALSE,
                                duration      |-> 1,
                                loop          |-> 0 ])
    /\ pc' = "done"
    /\ UNCHANGED <<contents, events, bounds, allocations_size, width, height,
                   padding_pixels, cell_size, allocated_dma, idx, frame,
                   images, stdout, error, calls, snapshots>>

\* line 183 with no image: nothing is saved
SaveNothing ==
    /\ pc = "collected"
    /\ Len(images) = 0
    /\ pc' = "done"
    /\ UNCHANGED <<contents, events, bounds, allocations_size, width, height,
                   padding_pixels, cell_size, allocated_dma, idx, frame,
                   images, stdout, saved, error, calls, snapshots>>

Next ==
    \/ ParseEvents
    \/ ReturnNoEvents
    \/ CalcBounds
    \/ Layout
    \/ LayoutRaises
    \/ ApplyEvent
    \/ RenderFrame
    \/ RenderRaises
    \/ YieldFrame
    \/ ReportProgress
    \/ AllDone
    \/ SaveGif
    \/ SaveNothing

Spec == Init /\ [][Next]_vars

----------------------------------------------------------------------------
(* Vocabulary of the properties *)

\* the number of lines of the log that are well-formed event lines
WellFormedCount == Cardinality({i \in 1..Len(contents) : LineMatches(contents[i])})

\* the run is over: replay_to_gif returned or an exception left it
Finished == pc \in {"done", "raised"}

AllSizesNonNegative == \A j \in 1..Len(events) : events[j][3] >= 0

\* event ev covers address unit u
Covers(ev, u) == ev[2] <= u /\ u < ev[2] + ev[3]

\* '+' events minus '-' events covering unit u among the first k events
NetCount(k, u) ==
    Cardinality({j \in 1..k : events[j][1] = "+" /\ Covers(events[j], u)})
        - Cardinality({j \in 1..k : events[j][1] = "-" /\ Covers(events[j], u)})

\* the address units of the run, once the bounds are known
Units == IF Len(bounds) = 2 THEN bounds[1].val..(bounds[2].val - 1) ELSE {}

\* the linear index of address unit u
IndexOf(u) == u - bounds[1].val

DarkBlue == <<25, 25, 127>>

Green == <<24, 190, 24>>

Red == <<255, 0, 0>>

MidGray == <<190, 190, 190>>

----------------------------------------------------------------------------
(* C1: when every size is >= 0, the frame of event k (0-based) carries the
   event id k and is rendered from counters that hold, for every address
   unit of [min_offset, max_offset), the number of '+' events among events
   0..k covering the unit minus the number of '-' events among them covering
   it: the counters accumulate over the run, are not clamped, and no later
   event has been applied. *)
C1_CountersAreNetCounts ==
    AllSizesNonNegative =>
        /\ Len(images) <= Len(snapshots)
        /\ \A k \in 1..Len(images) : images[k].event_id = k - 1
        /\ \A k \in 1..Len(snapshots) : \A u \in Units :
               snapshots[k][IndexOf(u)] = NetCount(k, u)

\* a finished run of three events with sizes >= 0 whose last frame was
\* rendered from a counter above 1 and a counter below 0
C1_Witness ==
    /\ pc = "done"
    /\ AllSizesNonNegative
    /\ Len(images) = 3
    /\ \E u \in Units : snapshots[3][IndexOf(u)] > 1
    /\ \E u \in Units : snapshots[3][IndexOf(u)] < 0

(* C2: a log with N well-formed lines ends, without an exception, with
   exactly N frames, the i-th carrying event id i (0-based), and the encoder
   receives those N frames in that order. *)
C2_OneFramePerEvent ==
    Finished =>
        /\ error = ""
        /\ Len(images) = WellFormedCount
        /\ \A k \in 1..Len(images) : images[k].event_id = k - 1
        /\ WellFormedCount > 0 =>
               /\ Len(saved) = 1
               /\ <<saved[1].first>> \o saved[1].append_images = images

(* C3, as stated: in every frame each unit of the real address range is
   green when its counter is 0 (Free), dark blue when it is 1 (Used) and red
   otherwise (Invalid). *)
C3_ZeroIsGreen ==
    \A k \in 1..Len(images) : \A u \in Units :
        LET c == snapshots[k][IndexOf(u)]
        IN  images[k].cells[IndexOf(u)] =
                IF c = 0 THEN Green ELSE IF c = 1 THEN DarkBlue ELSE Red

(* C3, amended: in every frame each unit of the real address range is green
   (the free colour) when its counter is 1, dark blue (the used colour) when
   it is 0 and red (the invalid colour) otherwise. *)
C3_OneIsGreen ==
    \A k \in 1..Len(images) : \A u \in Units :
        LET c == snapshots[k][IndexOf(u)]
        IN  images[k].cells[IndexOf(u)] =
                IF c = 1 THEN Green ELSE IF c = 0 THEN DarkBlue ELSE Red

\* a frame handed over that shows units of all three kinds
C3_Witness ==
    /\ Len(images) >= 1
    /\ LET last == Len(images)
       IN  /\ \E u \in Units : /\ snapshots[last][IndexOf(u)] = 1
                               /\ images[last].cells[IndexOf(u)] = Green
           /\ \E u \in Units : /\ snapshots[last][IndexOf(u)] = 0
                               /\ images[last].cells[IndexOf(u)] = DarkBlue
           /\ \E u \in Units : /\ snapshots[last][IndexOf(u)] < 0
                               /\ images[last].cells[IndexOf(u)] = Red
           /\ \E u \in Units : /\ snapshots[last][IndexOf(u)] > 1
                               /\ images[last].cells[IndexOf(u)] = Red

\* the log of the documented example: the single event (+, 0, 10)
SingleAllocLog == <<EventLine("+", 0, 10)>>

\* the counter array is all zero
AllZero(dma) == \A i \in DOMAIN dma : dma[i] = 0

(* C4, as stated: the Free figure of a frame is the number of units of the
   real range whose counter is 0, over allocations_size; it is 1.0 for an
   all-zero grid and 0.0 after the single event (+, 0, 10). *)
C4_FreeCountsZeros ==
    \A k \in 1..Len(images) :
        /\ images[k].free =
               <<Cardinality({u \in Units : snapshots[k][IndexOf(u)] = 0}),
                 allocations_size>>
        /\ AllZero(snapshots[k]) /\ allocations_size > 0 =>
               images[k].free[1] = images[k].free[2]
        /\ contents = SingleAllocLog => images[k].free = <<0, 10>>

(* C4, amended: the Free figure of a frame is the number of cells of the
   grid whose counter is 1, over allocations_size; it is 0.0 for an all-zero
   grid and 1.0 after the single event (+, 0, 10). *)
C4_FreeCountsOnes ==
    \A k \in 1..Len(images) :
        /\ images[k].free =
               <<Cardinality({i \in DOMAIN snapshots[k] : snapshots[k][i] = 1}),
                 allocations_size>>
        /\ AllZero(snapshots[k]) => images[k].free[1] = 0
        /\ contents = SingleAllocLog => images[k].free = <<10, 10>>

\* the frame of the single event (+, 0, 10) was handed over with Free 10/10
C4_Witness ==
    /\ contents = SingleAllocLog
    /\ pc = "done"
    /\ allocations_size = 10
    /\ images[1].free = <<10, 10>>

\* a frame rendered from an all-zero grid of a non-empty range, Free 0/size
C4_WitnessAllZero ==
    /\ Len(images) >= 1
    /\ allocations_size > 0
    /\ AllZero(snapshots[1])
    /\ images[1].free = <<0, allocations_size>>

(* C5: in every frame the last padding = width*height - allocations_size
   cells of the grid have the background colour, whatever their counters. *)
C5_PaddingIsBackground ==
    \A k \in 1..Len(images) : \A i \in DOMAIN images[k].cells :
        i >= (width * height) - padding_pixels => images[k].cells[i] = MidGray

(* C6: when there are events but allocations_size is 0, the run does not
   divide by allocations_size for the Free figure, raises nothing, and ends
   with zero frames. *)
C6_DegenerateYieldsNothing ==
    (Len(events) > 0 /\ Len(bounds) = 2 /\ allocations_size = 0) =>
        /\ Len(snapshots) > 0 => frame.free[2] # 0
        /\ error = ""
        /\ Finished => pc = "done" /\ Len(images) = 0 /\ Len(saved) = 0

(* C7: with no matching line in the log the run computes no bounds, builds
   no counter array and no frame, writes no progress, makes no encoder call
   and raises nothing; it goes on until replay_to_gif returns. *)
C7_EmptyInput ==
    WellFormedCount = 0 =>
        /\ Len(events) = 0
        /\ Len(bounds) = 0
        /\ \A i \in 1..Len(calls) : calls[i] = "parse_events"
        /\ Len(snapshots) = 0
        /\ Len(images) = 0
        /\ Len(stdout) = 0
        /\ Len(saved) = 0
        /\ error = ""
        /\ pc \in {"start", "parsed", "collected", "done"}
        /\ pc # "done" => ENABLED Next

\* replay_to_gif returned for a log of two lines, none of them matching
C7_Witness ==
    /\ pc = "done"
    /\ Len(contents) = 2
    /\ WellFormedCount = 0
    /\ calls = <<"parse_events">>

(* C8: whatever the grid holds, applying (+, o, s) and then (-, o, s)
   leaves the whole grid as it was before the '+' event. *)
C8_RoundTrip ==
    \A k \in 1..(Len(snapshots) - 1) :
        (/\ events[k][1] = "+"
         /\ events[k + 1] = <<"-", events[k][2], events[k][3]>>) =>
            snapshots[k + 1] =
                IF k = 1 THEN zeros(width * height) ELSE snapshots[k - 1]

\* a '+' event that changed a grid that was not all zero, undone by its '-'
C8_Witness ==
    /\ Len(snapshots) = 3
    /\ events[2][1] = "+"
    /\ events[3] = <<"-", events[2][2], events[2][3]>>
    /\ ~AllZero(snapshots[1])
    /\ snapshots[2] # snapshots[1]
    /\ snapshots[3] = snapshots[1]

(* C9: from the all-zero grid, (+, o, s) applied twice leaves 2 in every
   unit of [o, o+s), and the frame of the second event shows them red. *)
C9_DoubleApplication ==
    (/\ Len(snapshots) >= 2
     /\ events[1][1] = "+"
     /\ events[2] = events[1]) =>
        \A u \in events[1][2]..(events[1][2] + events[1][3] - 1) :
            /\ snapshots[2][IndexOf(u)] = 2
            /\ Len(images) >= 2 => images[2].cells[IndexOf(u)] = Red

\* the second frame of a doubled '+' event of size >= 1, its units red
C9_Witness ==
    /\ Len(images) >= 2
    /\ events[1][1] = "+"
    /\ events[2] = events[1]
    /\ events[1][3] >= 1
    /\ snapshots[2][IndexOf(events[1][2])] = 2
    /\ images[2].cells[IndexOf(events[1][2])] = Red

\* the events in the opposite order
Reversed(evs) == [j \in 1..Len(evs) |-> evs[Len(evs) + 1 - j]]

\* the events with '+' and '-' exchanged
Flipped(evs) ==
    [j \in 1..Len(evs) |->
        <<IF evs[j][1] = "+" THEN "-" ELSE "+", evs[j][2], evs[j][3]>>]

\* the events of the documented example
BoundsExample == <<<<"+", 0, 10>>, <<"+", 20, 5>>>>

(* C10: for a non-empty event list calc_bounds returns the least offset and
   the greatest offset+size of the events, whatever their modes and their
   order; for [(+,0,10), (+,20,5)] it returns (0, 25). *)
C10_Bounds ==
    Len(bounds) = 2 =>
        /\ bounds[1].finite /\ bounds[2].finite
        /\ \A j \in 1..Len(events) : bounds[1].val <= events[j][2]
        /\ \E j \in 1..Len(events) : bounds[1].val = events[j][2]
        /\ \A j \in 1..Len(events) : bounds[2].val >= events[j][2] + events[j][3]
        /\ \E j \in 1..Len(events) : bounds[2].val = events[j][2] + events[j][3]
        /\ calc_bounds(Reversed(events)) = bounds
        /\ calc_bounds(Flipped(events)) = bounds
        /\ events = BoundsExample => bounds = <<Number(0), Number(25)>>

\* the bounds of the documented example were computed: (0, 25)
C10_Witness ==
    /\ events = BoundsExample
    /\ Len(bounds) = 2
    /\ bounds[1].val = 0
    /\ bounds[2].val = 25

----------------------------------------------------------------------------
(* The layout on its own: the run on the one-line log "+ 0 n", taken from
   the point where the bounds (0, n) are known, through lines 66-83 *)

InitLayout ==
    \E n \in 0..MaxLayoutSize :
        /\ contents = <<EventLine("+", 0, n)>>
        /\ pc = "bounded"
        /\ events = <<<<"+", 0, n>>>>
        /\ bounds = <<Number(0), Number(n)>>
        /\ allocations_size = n
        /\ width = 0
        /\ height = 0
        /\ padding_pixels = 0
        /\ cell_size = 0
        /\ allocated_dma = <<>>
        /\ idx = 0
        /\ frame = <<>>
        /\ images = <<>>
        /\ stdout = <<>>
        /\ saved = <<>>
        /\ error = ""
        /\ calls = <<"parse_events", "calc_bounds">>
        /\ snapshots = <<>>

SpecLayout == InitLayout /\ [][Layout]_vars

(* C11: for every allocations_size >= 0 the width is the larger of 32 and
   the least w with w*w >= allocations_size, the height is the least h with
   width*h >= allocations_size, padding is width*height - allocations_size
   and is never negative; allocations_size = 1000 gives 32, 32, 24. *)
C11_Layout ==
    pc = "apply" =>
        /\ width >= 32
        /\ width * width >= allocations_size
        /\ width = 32 \/ (width - 1) * (width - 1) < allocations_size
        /\ height >= 0
        /\ width * height >= allocations_size
        /\ height = 0 \/ width * (height - 1) < allocations_size
        /\ padding_pixels = (width * height) - allocations_size
        /\ padding_pixels >= 0
        /\ DOMAIN allocated_dma = 0..((width * height) - 1)
        /\ allocations_size = 1000 =>
               width = 32 /\ height = 32 /\ padding_pixels = 24

\* the layout of the documented example was computed
C11_Witness ==
    /\ pc = "apply"
    /\ allocations_size = 1000
    /\ width = 32
    /\ height = 32
    /\ padding_pixels = 24

\* a layout wider than 32 with cells left over
C11_WitnessWide ==
    /\ pc = "apply"
    /\ width > 32
    /\ padding_pixels > 0

----------------------------------------------------------------------------
(* parse_events on its own: line 57 on logs of arbitrary characters *)

ParseAlphabet == {"+", "-", " ", "1", "x"}

\* every line of at most MaxLineLen characters
CharLines == UNION {[1..n -> ParseAlphabet] : n \in 0..MaxLineLen}

\* lines that match without being written the usual way, and near misses:
\* "+ 007 -0", "- -12 30", "+ 1 2 ", " + 1 2", "+  1 2", "+ 1 -", "+ 1.5 2"
OddLines ==
    { <<"+", " ", "0", "0", "7", " ", "-", "0">>,
      <<"-", " ", "-", "1", "2", " ", "3", "0">>,
      <<"+", " ", "1", " ", "2", " ">>,
      <<" ", "+", " ", "1", " ", "2">>,
      <<"+", " ", " ", "1", " ", "2">>,
      <<"+", " ", "1", " ", "-">>,
      <<"+", " ", "1", ".", "5", " ", "2">>,
      EventLine("+", 1, 1),
      EventLine("-", 0, 2) }

ParseLogs ==
    {<<l>> : l \in CharLines}
        \cup {<<a, b>> : a \in OddLines, b \in OddLines}
        \cup {<<a, b, c>> : a \in OddLines, b \in OddLines, c \in OddLines}

InitParse ==
    /\ contents \in ParseLogs
    /\ pc = "start"
    /\ events = <<>>
    /\ bounds = <<>>
    /\ allocations_size = 0
    /\ width = 0
    /\ height = 0
    /\ padding_pixels = 0
    /\ cell_size = 0
    /\ allocated_dma = <<>>
    /\ idx = 0
    /\ frame = <<>>
    /\ images = <<>>
    /\ stdout = <<>>
    /\ saved = <<>>
    /\ error = ""
    /\ calls = <<>>
    /\ snapshots = <<>>

SpecParse == InitParse /\ [][ParseEvents]_vars

\* the value of a decimal digit
DigitOf ==
    [c \in {"0", "1", "2", "3", "4", "5", "6", "7", "8", "9"} |->
        CASE c = "0" -> 0 [] c = "1" -> 1 [] c = "2" -> 2 [] c = "3" -> 3
          [] c = "4" -> 4 [] c = "5" -> 5 [] c = "6" -> 6 [] c = "7" -> 7
          [] c = "8" -> 8 [] c = "9" -> 9]

\* s is an optional '-' followed by one or more digits
RefIsInt(s) ==
    /\ Len(s) >= 1
    /\ s[Len(s)] \in DOMAIN DigitOf
    /\ \A i \in 1..Len(s) : s[i] \in DOMAIN DigitOf \/ (i = 1 /\ s[i] = "-")

RECURSIVE RefNumber(_, _)
\* the number written by the digits s after the digits that gave acc
RefNumber(s, acc) ==
    IF Len(s) = 0 THEN acc
    ELSE RefNumber(Tail(s), (10 * acc) + DigitOf[Head(s)])

RefInt(s) == IF s[1] = "-" THEN 0 - RefNumber(Tail(s), 0) ELSE RefNumber(s, 0)

\* the places at which a line splits into "<mode> <integer> <integer>"
RefSplits(line) ==
    {q \in 4..(Len(line) - 1) :
        /\ line[1] \in {"+", "-"}
        /\ line[2] = " "
        /\ line[q] = " "
        /\ RefIsInt(SubSeq(line, 3, q - 1))
        /\ RefIsInt(SubSeq(line, q + 1, Len(line)))}

RefEvent(line) ==
    LET q == CHOOSE q \in RefSplits(line) : TRUE
    IN  <<line[1], RefInt(SubSeq(line, 3, q - 1)),
          RefInt(SubSeq(line, q + 1, Len(line)))>>

\* the lines of the log that are event lines
Matching == {i \in 1..Len(contents) : RefSplits(contents[i]) # {}}

(* C12: parse_events returns one event per line of the form
   "<+ or -> <integer> <integer>" (signs allowed), in the order of the
   lines, with the mode and the two numbers of the line; every other line
   is skipped and changes nothing about the events of the other lines. *)
C12_Parse ==
    pc # "start" =>
        /\ Len(events) = Cardinality(Matching)
        /\ \A i \in Matching :
               events[Cardinality({j \in Matching : j <= i})]
                   = RefEvent(contents[i])
        /\ error = ""

\* a valid line between two rejected ones (the last with a size that is no
\* number) parsed to exactly one event
C12_Witness ==
    /\ pc = "parsed"
    /\ contents = << <<"+", " ", "1", " ", "2", " ">>,
                     <<"-", " ", "-", "1", "2", " ", "3", "0">>,
                     <<"+", " ", "1", " ", "-">> >>
    /\ events = <<<<"-", 0 - 12, 30>>>>

----------------------------------------------------------------------------
\* the counter array before event k was applied
Before(k) == IF k = 1 THEN zeros(width * height) ELSE snapshots[k - 1]

(* C13: with the bounds computed from the same events, the index range
   [offset - min_offset, offset + size - min_offset) of every applied event
   lies inside [0, allocations_size), and applying the event changes no
   counter other than those of the units the event covers. *)
C13_RangeInside ==
    \A k \in 1..Len(snapshots) :
        LET start == events[k][2] - bounds[1].val
            stop  == (events[k][2] + events[k][3]) - bounds[1].val
        IN  /\ 0 <= start /\ start <= allocations_size
            /\ 0 <= stop /\ stop <= allocations_size
            /\ \A i \in DOMAIN snapshots[k] :
                   snapshots[k][i] # Before(k)[i] =>
                       Covers(events[k], i + bounds[1].val)

----------------------------------------------------------------------------
\* how many of the first n steps of the history are the step named
StepsBefore(n, name) == Cardinality({i \in 1..(n - 1) : calls[i] = name})

\* what a run over the events writes when it goes through all of them
FullOutput ==
    [i \in 1..(Len(events) + 1) |->
        IF i <= Len(events) THEN <<i, Len(events)>> ELSE "ALL DONE"]

\* the part of C14 about the order of what is written: (k, N) is reported
\* after frame k was handed over and before event k+1 is applied, the
\* reports are (1, N), (2, N), ... in that order, each once, and the
\* completion line comes once, after (N, N), when every event was processed
ProgressInOrder ==
    /\ Len(stdout) <= Len(events) + 1
    /\ \A i \in 1..Len(stdout) : stdout[i] = FullOutput[i]
    /\ \A i \in 1..Len(calls) :
           /\ calls[i] = "apply" =>
                  /\ StepsBefore(i, "progress") = StepsBefore(i, "apply")
                  /\ StepsBefore(i, "yield") = StepsBefore(i, "apply")
           /\ calls[i] = "progress" =>
                  StepsBefore(i, "yield") = StepsBefore(i, "progress") + 1
    /\ Len(stdout) = Min(Len(events), StepsBefore(Len(calls) + 1, "progress"))
                         + (IF Len(stdout) = Len(events) + 1 THEN 1 ELSE 0)
    /\ Len(stdout) = Len(events) + 1 =>
           /\ Len(events) >= 1
           /\ idx = Len(events)
           /\ Len(images) = Len(events)
           /\ pc \in {"collected", "done"}
    /\ (pc = "done" /\ Len(events) >= 1) => Len(stdout) = Len(events) + 1

(* C14: a run over N >= 1 events reports (k, N) after each frame k and
   before event k+1 is applied, writes exactly the reports (1, N), ...,
   (N, N) in that order, each once, and then the completion line, once. *)
C14_Progress ==
    /\ ProgressInOrder
    /\ (Finished /\ Len(events) >= 1) => stdout = FullOutput

----------------------------------------------------------------------------
\* the value of a hexadecimal digit
HexDigitOf ==
    [c \in {"0", "1", "2", "3", "4", "5", "6", "7", "8", "9",
            "a", "b", "c", "d", "e", "f"} |->
        CASE c = "a" -> 10 [] c = "b" -> 11 [] c = "c" -> 12 [] c = "d" -> 13
          [] c = "e" -> 14 [] c = "f" -> 15 [] OTHER -> DigitOf[c]]

RECURSIVE RefHexNumber(_, _)
RefHexNumber(s, acc) ==
    IF Len(s) = 0 THEN acc
    ELSE RefHexNumber(Tail(s), (16 * acc) + HexDigitOf[Head(s)])

\* the number written by a hexadecimal text with an optional sign
RefHex(s) ==
    IF s[1] = "-" THEN 0 - RefHexNumber(Tail(s), 0) ELSE RefHexNumber(s, 0)

\* the text is the offset in hexadecimal, filled with zeros after the sign
\* up to 8 characters in all, and no longer than the number needs otherwise
IsHexOf(s, n) ==
    /\ Len(s) >= 8
    /\ \A i \in 1..Len(s) : s[i] \in DOMAIN HexDigitOf \/ (i = 1 /\ s[i] = "-")
    /\ (s[1] = "-") = (n < 0)
    /\ RefHex(s) = n
    /\ Len(s) > 8 => s[IF n < 0 THEN 2 ELSE 1] # "0"

\* the text is the size in decimal
IsDecimalOf(s, n) ==
    /\ RefIsInt(s)
    /\ RefInt(s) = n
    /\ (s[1] = "-") = (n < 0)
    /\ Len(s) > 1 => s[IF n < 0 THEN 2 ELSE 1] # "0"

(* C15, as stated: the description of every frame says "alloc" for a '+'
   event and "free" for a '-' event, followed by the offset in hex and the
   size. *)
C15_PlusIsAlloc ==
    \A k \in 1..Len(images) :
        /\ images[k].operation[1] = IF events[k][1] = "+" THEN "alloc" ELSE "free "
        /\ IsHexOf(images[k].operation[2], events[k][2])
        /\ IsDecimalOf(images[k].operation[3], events[k][3])

(* C15, amended: the description of every frame says "free" for a '+'
   event and "alloc" for a '-' event, followed by the offset in hex (zeros
   filling it to 8 characters, a sign included) and the size in decimal. *)
C15_PlusIsFree ==
    \A k \in 1..Len(images) :
        /\ images[k].operation[1] = IF events[k][1] = "+" THEN "free " ELSE "alloc"
        /\ IsHexOf(images[k].operation[2], events[k][2])
        /\ IsDecimalOf(images[k].operation[3], events[k][3])

\* the two frames of the log "+ -3 5", "- -1 4" were handed over, saying
\* "free  0x-0000003 : 5" and "alloc 0x-0000001 : 4"
C15_Witness ==
    /\ Len(images) = 2
    /\ events = <<<<"+", 0 - 3, 5>>, <<"-", 0 - 1, 4>>>>
    /\ images[1].operation =
           <<"free ", <<"-", "0", "0", "0", "0", "0", "0", "3">>, <<"5">>>>
    /\ images[2].operation =
           <<"alloc", <<"-", "0", "0", "0", "0", "0", "0", "1">>, <<"4">>>>

----------------------------------------------------------------------------
(* C16: from the moment an event has been applied until the next one is
   applied (classification, colours, magnification, texts, handing over
   the frame, progress report) no counter changes, and once the layout is
   established width, height, padding and cell size never change. *)
C16_RenderingReadsOnly ==
    [][ /\ pc \in {"render", "yield", "progress", "finish", "collected"} =>
               allocated_dma' = allocated_dma
        /\ pc \notin {"start", "parsed", "bounded"} =>
               /\ width' = width
               /\ height' = height
               /\ padding_pixels' = padding_pixels
               /\ cell_size' = cell_size ]_vars

\* the second frame was handed over, rendered from counters that the second
\* event had changed and that are still the counters of the array
C16_Witness ==
    /\ pc = "progress"
    /\ Len(images) = 2
    /\ snapshots[2] # snapshots[1]
    /\ allocated_dma = snapshots[2]
    /\ width = 32
    /\ cell_size = 10

----------------------------------------------------------------------------
(* The cell size on its own: line 72 for every grid width from 32 on *)

InitCellSize ==
    /\ width \in min_width..MaxWidth
    /\ pc = "width_known"
    /\ contents = <<>>
    /\ events = <<>>
    /\ bounds = <<>>
    /\ allocations_size = 0
    /\ height = 0
    /\ padding_pixels = 0
    /\ cell_size = 0
    /\ allocated_dma = <<>>
    /\ idx = 0
    /\ frame = <<>>
    /\ images = <<>>
    /\ stdout = <<>>
    /\ saved = <<>>
    /\ error = ""
    /\ calls = <<>>
    /\ snapshots = <<>>

\* line 72
CellSize ==
    /\ pc = "width_known"
    /\ cell_size' = grid_cell_size(width)
    /\ pc' = "cell_size_known"
    /\ UNCHANGED <<contents, events, bounds, allocations_size, width, height,
                   padding_pixels, allocated_dma, idx, frame, images, stdout,
                   saved, error, calls, snapshots>>

SpecCellSize == InitCellSize /\ [][CellSize]_vars

(* C17: for every width >= 32 the cell size is the whole part of
   2048 / width, held between 1 and 10: it is between 1 and 10, the
   magnified width width*cell_size is at most 2048 whenever width <= 2048,
   no larger cell size up to 10 would fit, and it is 1 for width > 2048. *)
C17_CellSize ==
    pc = "cell_size_known" =>
        /\ 1 <= cell_size /\ cell_size <= 10
        /\ width <= 2048 => width * cell_size <= 2048
        /\ cell_size < 10 => width * (cell_size + 1) > 2048
        /\ width > 2048 => cell_size = 1

\* the cell size of the first grid wider than the image limit
C17_Witness ==
    /\ pc = "cell_size_known"
    /\ width = 2049
    /\ cell_size = 1

\* the cell size of the narrowest grid that is magnified less than 10 times
C17_WitnessBelowCap ==
    /\ pc = "cell_size_known"
    /\ width = 205
    /\ cell_size = 9

----------------------------------------------------------------------------
\* the counter array has been built
ArrayBuilt == \E i \in 1..Len(calls) : calls[i] = "zeros"

(* C18: the counter array has width*height cells; when every event has a
   size >= 0 the counters of the cells from allocations_size on stay 0
   whatever events are applied, so these cells are not counted in the Free
   figure and keep the background colour in every frame. *)
C18_PaddingCountersStayZero ==
    /\ ArrayBuilt => DOMAIN allocated_dma = 0..((width * height) - 1)
    /\ AllSizesNonNegative =>
           /\ \A i \in DOMAIN allocated_dma :
                  i >= allocations_size => allocated_dma[i] = 0
           /\ \A k \in 1..Len(images) :
                  /\ \A i \in DOMAIN images[k].cells :
                         i >= allocations_size => images[k].cells[i] = MidGray
                  /\ images[k].free[1] =
                         Cardinality({u \in Units : snapshots[k][IndexOf(u)] = 1})

\* a finished run of events with sizes >= 0 that raised counters in the
\* real range, on a grid with padding cells, the last of them still 0 and
\* in the background colour
C18_Witness ==
    /\ pc = "done"
    /\ AllSizesNonNegative
    /\ Len(images) >= 2
    /\ padding_pixels > 0
    /\ \E u \in Units : allocated_dma[IndexOf(u)] # 0
    /\ allocated_dma[(width * height) - 1] = 0
    /\ images[Len(images)].cells[(width * height) - 1] = MidGray

====
